---- MODULE Spec2Model ----
(***************************************************************************)
(* A model of the at_protocol crate: Interface::send (src/src/lib.rs), the *)
(* Command trait and the commands' encode / decode routines                *)
(* (src/src/command/mod.rs, src/src/command/wifi_mode.rs).                 *)
(*                                                                         *)
(* Bytes are the integers 0..255, byte strings are sequences of them.      *)
(***************************************************************************)
EXTENDS Integers, Sequences, FiniteSets, TLC

VARIABLES
    debug_assertions, \* cfg!(debug_assertions): the build profile, fixed for a run
    pc,               \* where the caller / Interface::send stands
    command,          \* the command value passed to send
    buffer,           \* send's local `buffer` (request bytes, then the accumulation)
    request,          \* ghost: what command.encode produced in this exchange
    port_tx,          \* ghost: the bytes this exchange handed to the transport
    port_rx,          \* the bytes the transport will still deliver to the reads of this
                      \* exchange (the reply, or bytes an earlier exchange left unread)
    port_err,         \* ghost: the kind of the last io::Error the transport raised in
                      \* the last write_all or read of this exchange, "none" if it
                      \* raised none
    chunk,            \* ghost: the bytes returned by the last read (buff[..n])
    got,              \* ghost: concatenation of all chunks read in this exchange
    log,              \* ghost: the steps this exchange performed, in order
    result,           \* what the last call of send gave back to its caller
    cause,            \* ghost: why the last call ended
    exch,             \* number of calls of send started so far
    seen              \* ghost: the <<class, tag>> pairs of the Error::Custom errors
                      \* returned so far (the one variant send builds in two places)

vars == <<debug_assertions, pc, command, buffer, request, port_tx, port_rx,
          port_err, chunk, got, log, result, cause, exch, seen>>

(***************************************************************************)
(* Bounds of the model.                                                    *)
(***************************************************************************)
\* number of calls of send on one Interface
MaxExchanges == 2

\* most bytes an exchange may have left unread in the transport for a further
\* call of send to be followed
MaxLeft == 1

(***************************************************************************)
(* Byte-string helpers (slice methods of the standard library).            *)
(***************************************************************************)
Min(a, b) == IF a < b THEN a ELSE b

\* mutant of EndsWith: the suffix is looked for anywhere in s
EndsWithAnywhere(s, suffix) ==
    \E i \in 0..(Len(s) - Len(suffix)) : SubSeq(s, i + 1, i + Len(suffix)) = suffix

\* <[u8]>::ends_with
EndsWith(s, suffix) ==
    /\ Len(s) >= Len(suffix)
    /\ SubSeq(s, Len(s) - Len(suffix) + 1, Len(s)) = suffix

\* str::starts_with
StartsWith(s, prefix) ==
    /\ Len(s) >= Len(prefix)
    /\ SubSeq(s, 1, Len(prefix)) = prefix

\* s[..n]
Take(s, n) == SubSeq(s, 1, n)

\* s[n..]
Drop(s, n) == SubSeq(s, n + 1, Len(s))

\* mutant of Position: the last b instead of the first (rposition)
PositionLast(s, b) ==
    IF \E i \in 1..Len(s) : s[i] = b
    THEN CHOOSE i \in 1..Len(s) : s[i] = b /\ \A j \in (i + 1)..Len(s) : s[j] # b
    ELSE 0

\* Iterator::position for a byte: the 1-based index of the first b in s, 0 for None
Position(s, b) ==
    IF \E i \in 1..Len(s) : s[i] = b
    THEN CHOOSE i \in 1..Len(s) : s[i] = b /\ \A j \in 1..(i - 1) : s[j] # b
    ELSE 0

\* continuation byte 0x80..0xBF
IsCont(b) == b >= 128 /\ b <= 191

\* std::str::from_utf8(..).is_ok(): the well-formed UTF-8 byte sequences
RECURSIVE Utf8From(_, _)
Utf8From(s, i) ==
    IF i > Len(s) THEN TRUE
    ELSE LET b == s[i]
             n == Len(s) - i   \* bytes after s[i]
         IN  IF b <= 127 THEN Utf8From(s, i + 1)
             ELSE IF b >= 194 /\ b <= 223
             THEN n >= 1 /\ IsCont(s[i + 1]) /\ Utf8From(s, i + 2)
             ELSE IF b >= 224 /\ b <= 239
             THEN /\ n >= 2
                  /\ IsCont(s[i + 1]) /\ IsCont(s[i + 2])
                  /\ (b = 224 => s[i + 1] >= 160)
                  /\ (b = 237 => s[i + 1] <= 159)
                  /\ Utf8From(s, i + 3)
             ELSE IF b >= 240 /\ b <= 244
             THEN /\ n >= 3
                  /\ IsCont(s[i + 1]) /\ IsCont(s[i + 2]) /\ IsCont(s[i + 3])
                  /\ (b = 240 => s[i + 1] >= 144)
                  /\ (b = 244 => s[i + 1] <= 143)
                  /\ Utf8From(s, i + 4)
             ELSE FALSE

IsUtf8(s) == Utf8From(s, 1)

\* the decimal digits of a u8, as Display prints it
Dec(n) ==
    IF n >= 100 THEN <<48 + (n \div 100), 48 + ((n \div 10) % 10), 48 + (n % 10)>>
    ELSE IF n >= 10 THEN <<48 + (n \div 10), 48 + (n % 10)>>
    ELSE <<48 + n>>

\* {:?} of a byte slice: "[65, 84]"
RECURSIVE DebugItems(_, _)
DebugItems(s, i) ==
    IF i > Len(s) THEN <<>>
    ELSE (IF i > 1 THEN <<44, 32>> ELSE <<>>) \o Dec(s[i]) \o DebugItems(s, i + 1)

DebugBytes(s) == <<91>> \o DebugItems(s, 1) \o <<93>>

\* a hexadecimal digit, lower case
HexDigit(d) == IF d < 10 THEN 48 + d ELSE 87 + d

\* the hexadecimal digits of n, lower case, without leading zeros
RECURSIVE Hex(_)
Hex(n) == IF n < 16 THEN <<HexDigit(n)>> ELSE Hex(n \div 16) \o <<HexDigit(n % 16)>>

\* the number of bytes of the UTF-8 character with first byte b
CharLen(b) ==
    IF b >= 240 THEN 4 ELSE IF b >= 224 THEN 3 ELSE IF b >= 192 THEN 2 ELSE 1

\* the character (code point) of the UTF-8 text s that starts at byte i
CharAt(s, i) ==
    LET b == s[i]
    IN  IF CharLen(b) = 4
        THEN (b - 240) * 262144 + (s[i + 1] - 128) * 4096 + (s[i + 2] - 128) * 64
             + (s[i + 3] - 128)
        ELSE IF CharLen(b) = 3
        THEN (b - 224) * 4096 + (s[i + 1] - 128) * 64 + (s[i + 2] - 128)
        ELSE IF CharLen(b) = 2 THEN (b - 192) * 64 + (s[i + 1] - 128)
        ELSE b

\* the UTF-8 bytes of the character c
Utf8Of(c) ==
    IF c < 128 THEN <<c>>
    ELSE IF c < 2048 THEN <<192 + (c \div 64), 128 + (c % 64)>>
    ELSE IF c < 65536
    THEN <<224 + (c \div 4096), 128 + ((c \div 64) % 64), 128 + (c % 64)>>
    ELSE <<240 + (c \div 262144), 128 + ((c \div 4096) % 64),
           128 + ((c \div 64) % 64), 128 + (c % 64)>>

\* the characters from U+0080 on that {:?} of a str writes as \u{..}: those
\* with the property Grapheme_Extend and those that are not printable (general
\* categories Cc, Cf, Cs, Co, Cn, Zl, Zp, Zs), as ranges <<first, last>> of
\* Unicode 17.0 (the tables of the standard library of rustc 1.95)
EscapedRanges ==
    {
      <<128, 160>>, <<173, 173>>, <<768, 879>>, <<888, 889>>, <<896, 899>>,
      <<907, 907>>, <<909, 909>>, <<930, 930>>, <<1155, 1161>>, <<1328, 1328>>,
      <<1367, 1368>>, <<1419, 1420>>, <<1424, 1469>>, <<1471, 1471>>, <<1473, 1474>>,
      <<1476, 1477>>, <<1479, 1487>>, <<1515, 1518>>, <<1525, 1541>>, <<1552, 1562>>,
      <<1564, 1564>>, <<1611, 1631>>, <<1648, 1648>>, <<1750, 1757>>, <<1759, 1764>>,
      <<1767, 1768>>, <<1770, 1773>>, <<1806, 1807>>, <<1809, 1809>>, <<1840, 1868>>,
      <<1958, 1968>>, <<1970, 1983>>, <<2027, 2035>>, <<2043, 2045>>, <<2070, 2073>>,
      <<2075, 2083>>, <<2085, 2087>>, <<2089, 2095>>, <<2111, 2111>>, <<2137, 2141>>,
      <<2143, 2143>>, <<2155, 2159>>, <<2192, 2207>>, <<2250, 2306>>, <<2362, 2362>>,
      <<2364, 2364>>, <<2369, 2376>>, <<2381, 2381>>, <<2385, 2391>>, <<2402, 2403>>,
      <<2433, 2433>>, <<2436, 2436>>, <<2445, 2446>>, <<2449, 2450>>, <<2473, 2473>>,
      <<2481, 2481>>, <<2483, 2485>>, <<2490, 2492>>, <<2494, 2494>>, <<2497, 2502>>,
      <<2505, 2506>>, <<2509, 2509>>, <<2511, 2523>>, <<2526, 2526>>, <<2530, 2533>>,
      <<2558, 2562>>, <<2564, 2564>>, <<2571, 2574>>, <<2577, 2578>>, <<2601, 2601>>,
      <<2609, 2609>>, <<2612, 2612>>, <<2615, 2615>>, <<2618, 2621>>, <<2625, 2648>>,
      <<2653, 2653>>, <<2655, 2661>>, <<2672, 2673>>, <<2677, 2677>>, <<2679, 2690>>,
      <<2692, 2692>>, <<2702, 2702>>, <<2706, 2706>>, <<2729, 2729>>, <<2737, 2737>>,
      <<2740, 2740>>, <<2746, 2748>>, <<2753, 2760>>, <<2762, 2762>>, <<2765, 2767>>,
      <<2769, 2783>>, <<2786, 2789>>, <<2802, 2808>>, <<2810, 2817>>, <<2820, 2820>>,
      <<2829, 2830>>, <<2833, 2834>>, <<2857, 2857>>, <<2865, 2865>>, <<2868, 2868>>,
      <<2874, 2876>>, <<2878, 2879>>, <<2881, 2886>>, <<2889, 2890>>, <<2893, 2907>>,
      <<2910, 2910>>, <<2914, 2917>>, <<2936, 2946>>, <<2948, 2948>>, <<2955, 2957>>,
      <<2961, 2961>>, <<2966, 2968>>, <<2971, 2971>>, <<2973, 2973>>, <<2976, 2978>>,
      <<2981, 2983>>, <<2987, 2989>>, <<3002, 3006>>, <<3008, 3008>>, <<3011, 3013>>,
      <<3017, 3017>>, <<3021, 3023>>, <<3025, 3045>>, <<3067, 3072>>, <<3076, 3076>>,
      <<3085, 3085>>, <<3089, 3089>>, <<3113, 3113>>, <<3130, 3132>>, <<3134, 3136>>,
      <<3141, 3159>>, <<3163, 3163>>, <<3166, 3167>>, <<3170, 3173>>, <<3184, 3190>>,
      <<3201, 3201>>, <<3213, 3213>>, <<3217, 3217>>, <<3241, 3241>>, <<3252, 3252>>,
      <<3258, 3260>>, <<3263, 3264>>, <<3266, 3266>>, <<3269, 3291>>, <<3295, 3295>>,
      <<3298, 3301>>, <<3312, 3312>>, <<3316, 3329>>, <<3341, 3341>>, <<3345, 3345>>,
      <<3387, 3388>>, <<3390, 3390>>, <<3393, 3397>>, <<3401, 3401>>, <<3405, 3405>>,
      <<3408, 3411>>, <<3415, 3415>>, <<3426, 3429>>, <<3456, 3457>>, <<3460, 3460>>,
      <<3479, 3481>>, <<3506, 3506>>, <<3516, 3516>>, <<3518, 3519>>, <<3527, 3535>>,
      <<3538, 3543>>, <<3551, 3557>>, <<3568, 3569>>, <<3573, 3584>>, <<3633, 3633>>,
      <<3636, 3646>>, <<3655, 3662>>, <<3676, 3712>>, <<3715, 3715>>, <<3717, 3717>>,
      <<3723, 3723>>, <<3748, 3748>>, <<3750, 3750>>, <<3761, 3761>>, <<3764, 3772>>,
      <<3774, 3775>>, <<3781, 3781>>, <<3783, 3791>>, <<3802, 3803>>, <<3808, 3839>>,
      <<3864, 3865>>, <<3893, 3893>>, <<3895, 3895>>, <<3897, 3897>>, <<3912, 3912>>,
      <<3949, 3966>>, <<3968, 3972>>, <<3974, 3975>>, <<3981, 4029>>, <<4038, 4038>>,
      <<4045, 4045>>, <<4059, 4095>>, <<4141, 4144>>, <<4146, 4151>>, <<4153, 4154>>,
      <<4157, 4158>>, <<4184, 4185>>, <<4190, 4192>>, <<4209, 4212>>, <<4226, 4226>>,
      <<4229, 4230>>, <<4237, 4237>>, <<4253, 4253>>, <<4294, 4294>>, <<4296, 4300>>,
      <<4302, 4303>>, <<4681, 4681>>, <<4686, 4687>>, <<4695, 4695>>, <<4697, 4697>>,
      <<4702, 4703>>, <<4745, 4745>>, <<4750, 4751>>, <<4785, 4785>>, <<4790, 4791>>,
      <<4799, 4799>>, <<4801, 4801>>, <<4806, 4807>>, <<4823, 4823>>, <<4881, 4881>>,
      <<4886, 4887>>, <<4955, 4959>>, <<4989, 4991>>, <<5018, 5023>>, <<5110, 5111>>,
      <<5118, 5119>>, <<5760, 5760>>, <<5789, 5791>>, <<5881, 5887>>, <<5906, 5918>>,
      <<5938, 5940>>, <<5943, 5951>>, <<5970, 5983>>, <<5997, 5997>>, <<6001, 6015>>,
      <<6068, 6069>>, <<6071, 6077>>, <<6086, 6086>>, <<6089, 6099>>, <<6109, 6111>>,
      <<6122, 6127>>, <<6138, 6143>>, <<6155, 6159>>, <<6170, 6175>>, <<6265, 6271>>,
      <<6277, 6278>>, <<6313, 6313>>, <<6315, 6319>>, <<6390, 6399>>, <<6431, 6434>>,
      <<6439, 6440>>, <<6444, 6447>>, <<6450, 6450>>, <<6457, 6463>>, <<6465, 6467>>,
      <<6510, 6511>>, <<6517, 6527>>, <<6572, 6575>>, <<6602, 6607>>, <<6619, 6621>>,
      <<6679, 6680>>, <<6683, 6685>>, <<6742, 6742>>, <<6744, 6752>>, <<6754, 6754>>,
      <<6757, 6764>>, <<6771, 6783>>, <<6794, 6799>>, <<6810, 6815>>, <<6830, 6915>>,
      <<6964, 6973>>, <<6978, 6980>>, <<6989, 6989>>, <<7019, 7027>>, <<7040, 7041>>,
      <<7074, 7077>>, <<7080, 7085>>, <<7142, 7142>>, <<7144, 7145>>, <<7149, 7149>>,
      <<7151, 7163>>, <<7212, 7219>>, <<7222, 7226>>, <<7242, 7244>>, <<7307, 7311>>,
      <<7355, 7356>>, <<7368, 7378>>, <<7380, 7392>>, <<7394, 7400>>, <<7405, 7405>>,
      <<7412, 7412>>, <<7416, 7417>>, <<7419, 7423>>, <<7616, 7679>>, <<7958, 7959>>,
      <<7966, 7967>>, <<8006, 8007>>, <<8014, 8015>>, <<8024, 8024>>, <<8026, 8026>>,
      <<8028, 8028>>, <<8030, 8030>>, <<8062, 8063>>, <<8117, 8117>>, <<8133, 8133>>,
      <<8148, 8149>>, <<8156, 8156>>, <<8176, 8177>>, <<8181, 8181>>, <<8191, 8207>>,
      <<8232, 8239>>, <<8287, 8303>>, <<8306, 8307>>, <<8335, 8335>>, <<8349, 8351>>,
      <<8386, 8447>>, <<8588, 8591>>, <<9258, 9279>>, <<9291, 9311>>, <<11124, 11125>>,
      <<11503, 11505>>, <<11508, 11512>>, <<11558, 11558>>, <<11560, 11564>>, <<11566, 11567>>,
      <<11624, 11630>>, <<11633, 11647>>, <<11671, 11679>>, <<11687, 11687>>, <<11695, 11695>>,
      <<11703, 11703>>, <<11711, 11711>>, <<11719, 11719>>, <<11727, 11727>>, <<11735, 11735>>,
      <<11743, 11775>>, <<11870, 11903>>, <<11930, 11930>>, <<12020, 12031>>, <<12246, 12271>>,
      <<12288, 12288>>, <<12330, 12335>>, <<12352, 12352>>, <<12439, 12442>>, <<12544, 12548>>,
      <<12592, 12592>>, <<12687, 12687>>, <<12774, 12782>>, <<12831, 12831>>, <<42125, 42127>>,
      <<42183, 42191>>, <<42540, 42559>>, <<42607, 42610>>, <<42612, 42621>>, <<42654, 42655>>,
      <<42736, 42737>>, <<42744, 42751>>, <<42973, 42992>>, <<43010, 43010>>, <<43014, 43014>>,
      <<43019, 43019>>, <<43045, 43046>>, <<43052, 43055>>, <<43066, 43071>>, <<43128, 43135>>,
      <<43204, 43213>>, <<43226, 43249>>, <<43263, 43263>>, <<43302, 43309>>, <<43335, 43345>>,
      <<43347, 43358>>, <<43389, 43394>>, <<43443, 43443>>, <<43446, 43449>>, <<43452, 43453>>,
      <<43456, 43456>>, <<43470, 43470>>, <<43482, 43485>>, <<43493, 43493>>, <<43519, 43519>>,
      <<43561, 43566>>, <<43569, 43570>>, <<43573, 43583>>, <<43587, 43587>>, <<43596, 43596>>,
      <<43598, 43599>>, <<43610, 43611>>, <<43644, 43644>>, <<43696, 43696>>, <<43698, 43700>>,
      <<43703, 43704>>, <<43710, 43711>>, <<43713, 43713>>, <<43715, 43738>>, <<43756, 43757>>,
      <<43766, 43776>>, <<43783, 43784>>, <<43791, 43792>>, <<43799, 43807>>, <<43815, 43815>>,
      <<43823, 43823>>, <<43884, 43887>>, <<44005, 44005>>, <<44008, 44008>>, <<44013, 44015>>,
      <<44026, 44031>>, <<55204, 55215>>, <<55239, 55242>>, <<55292, 63743>>, <<64110, 64111>>,
      <<64218, 64255>>, <<64263, 64274>>, <<64280, 64284>>, <<64286, 64286>>, <<64311, 64311>>,
      <<64317, 64317>>, <<64319, 64319>>, <<64322, 64322>>, <<64325, 64325>>, <<64976, 65007>>,
      <<65024, 65039>>, <<65050, 65071>>, <<65107, 65107>>, <<65127, 65127>>, <<65132, 65135>>,
      <<65141, 65141>>, <<65277, 65280>>, <<65438, 65439>>, <<65471, 65473>>, <<65480, 65481>>,
      <<65488, 65489>>, <<65496, 65497>>, <<65501, 65503>>, <<65511, 65511>>, <<65519, 65531>>,
      <<65534, 65535>>, <<65548, 65548>>, <<65575, 65575>>, <<65595, 65595>>, <<65598, 65598>>,
      <<65614, 65615>>, <<65630, 65663>>, <<65787, 65791>>, <<65795, 65798>>, <<65844, 65846>>,
      <<65935, 65935>>, <<65949, 65951>>, <<65953, 65999>>, <<66045, 66175>>, <<66205, 66207>>,
      <<66257, 66272>>, <<66300, 66303>>, <<66340, 66348>>, <<66379, 66383>>, <<66422, 66431>>,
      <<66462, 66462>>, <<66500, 66503>>, <<66518, 66559>>, <<66718, 66719>>, <<66730, 66735>>,
      <<66772, 66775>>, <<66812, 66815>>, <<66856, 66863>>, <<66916, 66926>>, <<66939, 66939>>,
      <<66955, 66955>>, <<66963, 66963>>, <<66966, 66966>>, <<66978, 66978>>, <<66994, 66994>>,
      <<67002, 67002>>, <<67005, 67007>>, <<67060, 67071>>, <<67383, 67391>>, <<67414, 67423>>,
      <<67432, 67455>>, <<67462, 67462>>, <<67505, 67505>>, <<67515, 67583>>, <<67590, 67591>>,
      <<67593, 67593>>, <<67638, 67638>>, <<67641, 67643>>, <<67645, 67646>>, <<67670, 67670>>,
      <<67743, 67750>>, <<67760, 67807>>, <<67827, 67827>>, <<67830, 67834>>, <<67868, 67870>>,
      <<67898, 67902>>, <<67930, 67967>>, <<68024, 68027>>, <<68048, 68049>>, <<68097, 68111>>,
      <<68116, 68116>>, <<68120, 68120>>, <<68150, 68159>>, <<68169, 68175>>, <<68185, 68191>>,
      <<68256, 68287>>, <<68325, 68330>>, <<68343, 68351>>, <<68406, 68408>>, <<68438, 68439>>,
      <<68467, 68471>>, <<68498, 68504>>, <<68509, 68520>>, <<68528, 68607>>, <<68681, 68735>>,
      <<68787, 68799>>, <<68851, 68857>>, <<68900, 68911>>, <<68922, 68927>>, <<68966, 68973>>,
      <<68998, 69005>>, <<69008, 69215>>, <<69247, 69247>>, <<69290, 69292>>, <<69294, 69295>>,
      <<69298, 69313>>, <<69320, 69327>>, <<69337, 69375>>, <<69416, 69423>>, <<69446, 69456>>,
      <<69466, 69487>>, <<69506, 69509>>, <<69514, 69551>>, <<69580, 69599>>, <<69623, 69631>>,
      <<69633, 69633>>, <<69688, 69702>>, <<69710, 69713>>, <<69744, 69744>>, <<69747, 69748>>,
      <<69750, 69761>>, <<69811, 69814>>, <<69817, 69818>>, <<69821, 69821>>, <<69826, 69839>>,
      <<69865, 69871>>, <<69882, 69890>>, <<69927, 69931>>, <<69933, 69941>>, <<69960, 69967>>,
      <<70003, 70003>>, <<70007, 70017>>, <<70070, 70078>>, <<70080, 70080>>, <<70089, 70092>>,
      <<70095, 70095>>, <<70112, 70112>>, <<70133, 70143>>, <<70162, 70162>>, <<70191, 70193>>,
      <<70196, 70199>>, <<70206, 70206>>, <<70209, 70271>>, <<70279, 70279>>, <<70281, 70281>>,
      <<70286, 70286>>, <<70302, 70302>>, <<70314, 70319>>, <<70367, 70367>>, <<70371, 70383>>,
      <<70394, 70401>>, <<70404, 70404>>, <<70413, 70414>>, <<70417, 70418>>, <<70441, 70441>>,
      <<70449, 70449>>, <<70452, 70452>>, <<70458, 70460>>, <<70462, 70462>>, <<70464, 70464>>,
      <<70469, 70470>>, <<70473, 70474>>, <<70477, 70479>>, <<70481, 70492>>, <<70500, 70527>>,
      <<70538, 70538>>, <<70540, 70541>>, <<70543, 70543>>, <<70582, 70582>>, <<70584, 70584>>,
      <<70587, 70601>>, <<70603, 70603>>, <<70606, 70608>>, <<70610, 70610>>, <<70614, 70614>>,
      <<70617, 70655>>, <<70712, 70719>>, <<70722, 70724>>, <<70726, 70726>>, <<70748, 70748>>,
      <<70750, 70750>>, <<70754, 70783>>, <<70832, 70832>>, <<70835, 70840>>, <<70842, 70842>>,
      <<70845, 70845>>, <<70847, 70848>>, <<70850, 70851>>, <<70856, 70863>>, <<70874, 71039>>,
      <<71087, 71087>>, <<71090, 71095>>, <<71100, 71101>>, <<71103, 71104>>, <<71132, 71167>>,
      <<71219, 71226>>, <<71229, 71229>>, <<71231, 71232>>, <<71237, 71247>>, <<71258, 71263>>,
      <<71277, 71295>>, <<71339, 71339>>, <<71341, 71341>>, <<71344, 71351>>, <<71354, 71359>>,
      <<71370, 71375>>, <<71396, 71423>>, <<71451, 71453>>, <<71455, 71455>>, <<71458, 71461>>,
      <<71463, 71471>>, <<71495, 71679>>, <<71727, 71735>>, <<71737, 71738>>, <<71740, 71839>>,
      <<71923, 71934>>, <<71943, 71944>>, <<71946, 71947>>, <<71956, 71956>>, <<71959, 71959>>,
      <<71984, 71984>>, <<71990, 71990>>, <<71993, 71998>>, <<72003, 72003>>, <<72007, 72015>>,
      <<72026, 72095>>, <<72104, 72105>>, <<72148, 72155>>, <<72160, 72160>>, <<72165, 72191>>,
      <<72193, 72202>>, <<72243, 72248>>, <<72251, 72254>>, <<72263, 72271>>, <<72273, 72278>>,
      <<72281, 72283>>, <<72330, 72342>>, <<72344, 72345>>, <<72355, 72367>>, <<72441, 72447>>,
      <<72458, 72544>>, <<72546, 72548>>, <<72550, 72550>>, <<72552, 72639>>, <<72674, 72687>>,
      <<72698, 72703>>, <<72713, 72713>>, <<72752, 72765>>, <<72767, 72767>>, <<72774, 72783>>,
      <<72813, 72815>>, <<72848, 72872>>, <<72874, 72880>>, <<72882, 72883>>, <<72885, 72959>>,
      <<72967, 72967>>, <<72970, 72970>>, <<73009, 73029>>, <<73031, 73039>>, <<73050, 73055>>,
      <<73062, 73062>>, <<73065, 73065>>, <<73103, 73106>>, <<73109, 73109>>, <<73111, 73111>>,
      <<73113, 73119>>, <<73130, 73135>>, <<73180, 73183>>, <<73194, 73439>>, <<73459, 73460>>,
      <<73465, 73473>>, <<73489, 73489>>, <<73526, 73533>>, <<73536, 73538>>, <<73562, 73647>>,
      <<73649, 73663>>, <<73714, 73726>>, <<74650, 74751>>, <<74863, 74863>>, <<74869, 74879>>,
      <<75076, 77711>>, <<77811, 77823>>, <<78896, 78912>>, <<78919, 78943>>, <<82939, 82943>>,
      <<83527, 90367>>, <<90398, 90409>>, <<90413, 90415>>, <<90426, 92159>>, <<92729, 92735>>,
      <<92767, 92767>>, <<92778, 92781>>, <<92863, 92863>>, <<92874, 92879>>, <<92910, 92916>>,
      <<92918, 92927>>, <<92976, 92982>>, <<92998, 93007>>, <<93018, 93018>>, <<93026, 93026>>,
      <<93048, 93052>>, <<93072, 93503>>, <<93562, 93759>>, <<93851, 93855>>, <<93881, 93882>>,
      <<93908, 93951>>, <<94027, 94031>>, <<94088, 94098>>, <<94112, 94175>>, <<94180, 94193>>,
      <<94199, 94207>>, <<101590, 101630>>, <<101663, 101759>>, <<101875, 110575>>, <<110580, 110580>>,
      <<110588, 110588>>, <<110591, 110591>>, <<110883, 110897>>, <<110899, 110927>>, <<110931, 110932>>,
      <<110934, 110947>>, <<110952, 110959>>, <<111356, 113663>>, <<113771, 113775>>, <<113789, 113791>>,
      <<113801, 113807>>, <<113818, 113819>>, <<113821, 113822>>, <<113824, 117759>>, <<118013, 118015>>,
      <<118452, 118457>>, <<118481, 118495>>, <<118513, 118607>>, <<118724, 118783>>, <<119030, 119039>>,
      <<119079, 119080>>, <<119141, 119145>>, <<119149, 119170>>, <<119173, 119179>>, <<119210, 119213>>,
      <<119275, 119295>>, <<119362, 119364>>, <<119366, 119487>>, <<119508, 119519>>, <<119540, 119551>>,
      <<119639, 119647>>, <<119673, 119807>>, <<119893, 119893>>, <<119965, 119965>>, <<119968, 119969>>,
      <<119971, 119972>>, <<119975, 119976>>, <<119981, 119981>>, <<119994, 119994>>, <<119996, 119996>>,
      <<120004, 120004>>, <<120070, 120070>>, <<120075, 120076>>, <<120085, 120085>>, <<120093, 120093>>,
      <<120122, 120122>>, <<120127, 120127>>, <<120133, 120133>>, <<120135, 120137>>, <<120145, 120145>>,
      <<120486, 120487>>, <<120780, 120781>>, <<121344, 121398>>, <<121403, 121452>>, <<121461, 121461>>,
      <<121476, 121476>>, <<121484, 122623>>, <<122655, 122660>>, <<122667, 122927>>, <<122990, 123135>>,
      <<123181, 123190>>, <<123198, 123199>>, <<123210, 123213>>, <<123216, 123535>>, <<123566, 123583>>,
      <<123628, 123631>>, <<123642, 123646>>, <<123648, 124111>>, <<124140, 124143>>, <<124154, 124367>>,
      <<124398, 124399>>, <<124411, 124414>>, <<124416, 124607>>, <<124639, 124639>>, <<124643, 124643>>,
      <<124646, 124646>>, <<124654, 124655>>, <<124661, 124669>>, <<124672, 124895>>, <<124903, 124903>>,
      <<124908, 124908>>, <<124911, 124911>>, <<124927, 124927>>, <<125125, 125126>>, <<125136, 125183>>,
      <<125252, 125258>>, <<125260, 125263>>, <<125274, 125277>>, <<125280, 126064>>, <<126133, 126208>>,
      <<126270, 126463>>, <<126468, 126468>>, <<126496, 126496>>, <<126499, 126499>>, <<126501, 126502>>,
      <<126504, 126504>>, <<126515, 126515>>, <<126520, 126520>>, <<126522, 126522>>, <<126524, 126529>>,
      <<126531, 126534>>, <<126536, 126536>>, <<126538, 126538>>, <<126540, 126540>>, <<126544, 126544>>,
      <<126547, 126547>>, <<126549, 126550>>, <<126552, 126552>>, <<126554, 126554>>, <<126556, 126556>>,
      <<126558, 126558>>, <<126560, 126560>>, <<126563, 126563>>, <<126565, 126566>>, <<126571, 126571>>,
      <<126579, 126579>>, <<126584, 126584>>, <<126589, 126589>>, <<126591, 126591>>, <<126602, 126602>>,
      <<126620, 126624>>, <<126628, 126628>>, <<126634, 126634>>, <<126652, 126703>>, <<126706, 126975>>,
      <<127020, 127023>>, <<127124, 127135>>, <<127151, 127152>>, <<127168, 127168>>, <<127184, 127184>>,
      <<127222, 127231>>, <<127406, 127461>>, <<127491, 127503>>, <<127548, 127551>>, <<127561, 127567>>,
      <<127570, 127583>>, <<127590, 127743>>, <<128729, 128731>>, <<128749, 128751>>, <<128765, 128767>>,
      <<128986, 128991>>, <<129004, 129007>>, <<129009, 129023>>, <<129036, 129039>>, <<129096, 129103>>,
      <<129114, 129119>>, <<129160, 129167>>, <<129198, 129199>>, <<129212, 129215>>, <<129218, 129231>>,
      <<129241, 129279>>, <<129624, 129631>>, <<129646, 129647>>, <<129661, 129663>>, <<129675, 129677>>,
      <<129735, 129735>>, <<129737, 129740>>, <<129757, 129758>>, <<129771, 129774>>, <<129785, 129791>>,
      <<129939, 129939>>, <<130043, 131071>>, <<173792, 173823>>, <<178206, 178207>>, <<183982, 183983>>,
      <<191457, 191471>>, <<192094, 194559>>, <<195102, 196607>>, <<201547, 201551>>, <<210042, 1114111>> }

\* c is written as \u{..}
IsEscaped(c) == \E r \in EscapedRanges : r[1] <= c /\ c <= r[2]

\* char::escape_debug of the character c of a str (the single quote is kept)
EscapeDebug(c) ==
    CASE c = 0 -> <<92, 48>>          \* \0
      [] c = 9 -> <<92, 116>>         \* \t
      [] c = 10 -> <<92, 110>>        \* \n
      [] c = 13 -> <<92, 114>>        \* \r
      [] c = 34 -> <<92, 34>>         \* \"
      [] c = 92 -> <<92, 92>>         \* \\
      [] (c < 32 \/ c = 127) /\ c \notin {0, 9, 10, 13} ->
            <<92, 117, 123>> \o Hex(c) \o <<125>>
      [] c >= 128 /\ IsEscaped(c) -> <<92, 117, 123>> \o Hex(c) \o <<125>>
      [] OTHER -> Utf8Of(c)

\* the characters of the text s from byte i on, each escaped
RECURSIVE EscapeFrom(_, _)
EscapeFrom(s, i) ==
    IF i > Len(s) THEN <<>>
    ELSE EscapeDebug(CharAt(s, i)) \o EscapeFrom(s, i + CharLen(s[i]))

\* {:?} of a str: the escaped text between double quotes
DebugStr(s) == <<34>> \o EscapeFrom(s, 1) \o <<34>>

(***************************************************************************)
(* Interface::send: the two phrases and the line terminator.               *)
(***************************************************************************)
\* b"\r\nOK\r\n"
END_PHRASE == <<13, 10, 79, 75, 13, 10>>

\* b"\r\nERROR\r\n"
ERROR_PHRASE == <<13, 10, 69, 82, 82, 79, 82, 13, 10>>

\* b"\r\n"
CRLF == <<13, 10>>

\* [0u8; 1024]: the size of the read buffer
BUFF_LEN == 1024

(***************************************************************************)
(* Values handed back to the caller of send: Result<T::Output, Error>, or  *)
(* a panic that unwinds out of send.                                       *)
(***************************************************************************)
Ok(v) == [kind |-> "Ok", tag |-> "", val |-> v]

\* Err(Error::<tag>(v)), tag one of Serial, Io, Encode, Custom, InvalidResponse
Err(t, v) == [kind |-> "Err", tag |-> t, val |-> v]

\* panic!(..) or a failed unwrap(), named by the place it happens at
Panic(at) == [kind |-> "Panic", tag |-> at, val |-> <<>>]

NoResult == [kind |-> "None", tag |-> "", val |-> <<>>]

(***************************************************************************)
(* The commands (src/src/command).  A command is a record; the name field  *)
(* says which type implements Command.  "Other" stands for an              *)
(* implementation of the public trait outside the crate: its encode gives  *)
(* the result stored in the record, its decode hands the body back.        *)
(***************************************************************************)
\* simple_command!(Test => b"AT\r\n")
TestBlob == <<65, 84, 13, 10>>

\* simple_command!(Restart => b"AT+RST\r\n")
RestartBlob == <<65, 84, 43, 82, 83, 84, 13, 10>>

\* simple_command!(DisconnectFromAp => b"AT+CWQAP\r\n")
DisconnectFromApBlob == <<65, 84, 43, 67, 87, 81, 65, 80, 13, 10>>

Blob(name) ==
    CASE name = "Test" -> TestBlob
      [] name = "Restart" -> RestartBlob
      [] name = "DisconnectFromAp" -> DisconnectFromApBlob

SimpleNames == {"Test", "Restart", "DisconnectFromAp"}

\* enum WifiMode as u8
WifiModeCode(m) ==
    CASE m = "StationMode" -> 1
      [] m = "ApMode" -> 2
      [] m = "ApStationMode" -> 3

WifiModes == {"StationMode", "ApMode", "ApStationMode"}

\* Command::encode of each command: the bytes appended to the empty output
Encode(c) ==
    CASE c.name \in SimpleNames -> Ok(Blob(c.name))
      [] c.name = "GetWifiMode" ->
            \* b"AT+CWMODE?\r\n"
            Ok(<<65, 84, 43, 67, 87, 77, 79, 68, 69, 63, 13, 10>>)
      [] c.name = "SetWifiMode" ->
            \* "AT+CWMODE={}\r\n", self.0 as u8
            Ok(<<65, 84, 43, 67, 87, 77, 79, 68, 69, 61>>
                 \o Dec(WifiModeCode(c.mode)) \o <<13, 10>>)
      [] c.name = "GetVersion" ->
            \* b"AT+GMR\r\n"
            Ok(<<65, 84, 43, 71, 77, 82, 13, 10>>)
      [] c.name = "GetConnectedAp" ->
            \* b"AT+CWJAP?\r\n"
            Ok(<<65, 84, 43, 67, 87, 74, 65, 80, 63, 13, 10>>)
      [] c.name = "ConnectToAp" ->
            \* "AT+CWJAP={:?},{:?}\r\n", self.ssid, self.password
            Ok(<<65, 84, 43, 67, 87, 74, 65, 80, 61>> \o DebugStr(c.ssid) \o <<44>>
                 \o DebugStr(c.password) \o <<13, 10>>)
      [] c.name = "ListAp" ->
            \* b"AT+CWLAP\r\n"
            Ok(<<65, 84, 43, 67, 87, 76, 65, 80, 13, 10>>)
      [] c.name = "Other" -> c.enc

\* mutant of SimpleDecode: starts_with instead of ==
SimpleDecodePrefix(blob, input) ==
    Ok(Len(input) >= Len(blob) /\ SubSeq(input, 1, Len(blob)) = blob)

\* simple_command!: fn decode
SimpleDecode(blob, input) == Ok(input = blob)

\* GetWifiMode::decode
\* "Invalid response: {:?}"
InvalidResponseText(input) ==
    <<73, 110, 118, 97, 108, 105, 100, 32, 114, 101, 115, 112, 111, 110, 115,
      101, 58, 32>> \o DebugBytes(input)

\* "Unknown wifi mode: {}, expected {}, {} or {}" with x, b'1', b'2', b'3'
UnknownModeText(x) ==
    <<85, 110, 107, 110, 111, 119, 110, 32, 119, 105, 102, 105, 32, 109, 111,
      100, 101, 58, 32>> \o Dec(x)
    \o <<44, 32, 101, 120, 112, 101, 99, 116, 101, 100, 32>> \o Dec(49)
    \o <<44, 32>> \o Dec(50) \o <<32, 111, 114, 32>> \o Dec(51)

\* mutant of GetWifiModeDecode: a missing ':' or a missing byte after it falls
\* back to the first mode
GetWifiModeDecodeDefault(input) ==
    LET index == Position(input, 58)
    IN  IF index = 0 \/ index + 1 > Len(input) THEN Ok("StationMode")
        ELSE LET next == input[index + 1]
             IN  CASE next = 49 -> Ok("StationMode")
                   [] next = 50 -> Ok("ApMode")
                   [] next = 51 -> Ok("ApStationMode")
                   [] OTHER -> Err("Custom", UnknownModeText(next))

GetWifiModeDecode(input) ==
    LET index == Position(input, 58)
    IN  IF index = 0 THEN Err("Custom", InvalidResponseText(input))
        ELSE IF index + 1 > Len(input)
        THEN Err("Custom", InvalidResponseText(input))
        ELSE LET next == input[index + 1]
             IN  CASE next = 49 -> Ok("StationMode")
                   [] next = 50 -> Ok("ApMode")
                   [] next = 51 -> Ok("ApStationMode")
                   [] OTHER -> Err("Custom", UnknownModeText(next))

\* SetWifiMode::decode
SetWifiModeDecode(input) == Ok("unit")

\* "Could not find character {:?} in string {:?}" with find: u8 and str: &str
CouldNotFindText(str, find) ==
    <<67, 111, 117, 108, 100, 32, 110, 111, 116, 32, 102, 105, 110, 100, 32, 99,
      104, 97, 114, 97, 99, 116, 101, 114, 32>> \o Dec(find)
    \o <<32, 105, 110, 32, 115, 116, 114, 105, 110, 103, 32>> \o DebugStr(str)

\* wifi_mode.rs 148-150, 219-221: one pair of surrounding quotes is taken off
StripQuotes(lhs) ==
    IF Len(lhs) >= 2 /\ lhs[1] = 34 /\ lhs[Len(lhs)] = 34
    THEN SubSeq(lhs, 2, Len(lhs) - 1)
    ELSE lhs

\* mutant of ScanFrom: the quotes are not looked at
RECURSIVE ScanNoQuotes(_, _, _, _)
ScanNoQuotes(str, find, index, in_quotes) ==
    IF index > Len(str) THEN 0
    ELSE IF str[index] = find THEN index
    ELSE ScanNoQuotes(str, find, index + 1, in_quotes)

\* the loop of try_get_string_until from byte `index` on (1-based): the index
\* of the first byte equal to find met outside quotes, 0 when there is none
RECURSIVE ScanFrom(_, _, _, _)
ScanFrom(str, find, index, in_quotes) ==
    IF index > Len(str) THEN 0
    ELSE LET q == IF str[index] = 34 THEN ~in_quotes ELSE in_quotes
         IN  IF str[index] = find /\ ~q THEN index
             ELSE ScanFrom(str, find, index + 1, q)

\* try_get_string_until: Ok((lhs, rhs)) or the error
TryGetStringUntil(str, find) ==
    LET index == ScanFrom(str, find, 1, FALSE)
    IN  IF index = 0 THEN Err("Custom", CouldNotFindText(str, find))
        ELSE Ok(<<StripQuotes(Take(str, index - 1)), Drop(str, index)>>)

\* str::lines from byte `start` on, i scanning for the next '\n': the lines
\* without their "\n" or "\r\n"; a last line without "\n" is kept as it is
RECURSIVE LinesFrom(_, _, _)
LinesFrom(s, start, i) ==
    IF i > Len(s)
    THEN IF start > Len(s) THEN <<>> ELSE <<SubSeq(s, start, Len(s))>>
    ELSE IF s[i] = 10
    THEN LET line == SubSeq(s, start, i - 1)
         IN  <<IF Len(line) > 0 /\ line[Len(line)] = 13
               THEN SubSeq(line, 1, Len(line) - 1)
               ELSE line>>
             \o LinesFrom(s, i + 1, i + 1)
    ELSE LinesFrom(s, start, i + 1)

\* str::lines
Lines(s) == LinesFrom(s, 1, 1)

\* the loop of from_str_radix over the digits: the value, or the kind of the
\* ParseIntError; acc is the value so far, negative when the sign was '-'
RECURSIVE ParseDigits(_, _, _, _, _, _)
ParseDigits(digits, i, acc, positive, min, max) ==
    IF i > Len(digits) THEN Ok(acc)
    ELSE IF digits[i] < 48 \/ digits[i] > 57 THEN Err("ParseInt", "InvalidDigit")
    ELSE LET x == digits[i] - 48
         IN  IF positive
             THEN IF acc * 10 + x > max THEN Err("ParseInt", "PosOverflow")
                  ELSE ParseDigits(digits, i + 1, acc * 10 + x, positive, min, max)
             ELSE IF acc * 10 - x < min THEN Err("ParseInt", "NegOverflow")
                  ELSE ParseDigits(digits, i + 1, acc * 10 - x, positive, min, max)

\* str::parse for the integer type min..max (signed when min < 0)
ParseInt(src, min, max) ==
    IF Len(src) = 0 THEN Err("ParseInt", "Empty")
    ELSE IF src[1] \in {43, 45} /\ Len(src) = 1 THEN Err("ParseInt", "InvalidDigit")
    ELSE IF src[1] = 43 THEN ParseDigits(Drop(src, 1), 1, 0, TRUE, min, max)
    ELSE IF src[1] = 45 /\ min < 0 THEN ParseDigits(Drop(src, 1), 1, 0, FALSE, min, max)
    ELSE ParseDigits(src, 1, 0, TRUE, min, max)

\* mutant of ParseU8: the code is parsed as a decimal digit only
ParseU8OneDigit(src) == ParseInt(src, 0, 9)

\* str::parse::<u8>
ParseU8(src) == ParseInt(src, 0, 255)

\* str::parse::<i16>
ParseI16(src) == ParseInt(src, -32768, 32767)

\* {:?} of a ParseIntError: "ParseIntError { kind: InvalidDigit }"
DebugParseIntError(kind) ==
    <<80, 97, 114, 115, 101, 73, 110, 116, 69, 114, 114, 111, 114, 32, 123, 32,
      107, 105, 110, 100, 58, 32>>
    \o (CASE kind = "Empty" -> <<69, 109, 112, 116, 121>>
          [] kind = "InvalidDigit" ->
                <<73, 110, 118, 97, 108, 105, 100, 68, 105, 103, 105, 116>>
          [] kind = "PosOverflow" ->
                <<80, 111, 115, 79, 118, 101, 114, 102, 108, 111, 119>>
          [] kind = "NegOverflow" ->
                <<78, 101, 103, 79, 118, 101, 114, 102, 108, 111, 119>>)
    \o <<32, 125>>

\* "Invalid ECN value {:?}: {:?}"
InvalidEcnText(text, kind) ==
    <<73, 110, 118, 97, 108, 105, 100, 32, 69, 67, 78, 32, 118, 97, 108, 117,
      101, 32>> \o DebugStr(text) \o <<58, 32>> \o DebugParseIntError(kind)

\* "Invalid RSSI value: {:?}: {:?}"
InvalidRssiText(text, kind) ==
    <<73, 110, 118, 97, 108, 105, 100, 32, 82, 83, 83, 73, 32, 118, 97, 108,
      117, 101, 58, 32>> \o DebugStr(text) \o <<58, 32>> \o DebugParseIntError(kind)

\* "Invalid channel value: {:?}: {:?}"
InvalidChannelText(text, kind) ==
    <<73, 110, 118, 97, 108, 105, 100, 32, 99, 104, 97, 110, 110, 101, 108, 32,
      118, 97, 108, 117, 101, 58, 32>>
    \o DebugStr(text) \o <<58, 32>> \o DebugParseIntError(kind)

\* enum ECN from the parsed code
EcnOf(code) ==
    CASE code = 0 -> <<"Open">>
      [] code = 1 -> <<"WEP">>
      [] code = 2 -> <<"WPA_PSK">>
      [] code = 3 -> <<"WPA2_PSK">>
      [] code = 4 -> <<"WPA_WPA2_PSK">>
      [] OTHER -> <<"Unknown", code>>

\* "+CWLAP:("
CwlapPrefix == <<43, 67, 87, 76, 65, 80, 58, 40>>

\* wifi_mode.rs 81-133: the body of the loop of ListAp::decode for one kept
\* line: Ok(the AccessPoint) or the error decode returns
ListApRecord(line0) ==
    LET open_bracket == Position(line0, 40)
        f1 == TryGetStringUntil(Drop(line0, open_bracket), 44)
        f2 == TryGetStringUntil(f1.val[2], 44)
        f3 == TryGetStringUntil(f2.val[2], 44)
        f4 == TryGetStringUntil(f3.val[2], 44)
        f5 == TryGetStringUntil(f4.val[2], 41)
        ecn == ParseU8(f1.val[1])
        rssi == ParseI16(f3.val[1])
        channel == ParseU8(f5.val[1])
    IN  IF f1.kind = "Err" THEN f1
        ELSE IF f2.kind = "Err" THEN f2
        ELSE IF f3.kind = "Err" THEN f3
        ELSE IF f4.kind = "Err" THEN f4
        ELSE IF f5.kind = "Err" THEN f5
        ELSE IF ecn.kind = "Err"
        THEN Err("Custom", InvalidEcnText(f1.val[1], ecn.val))
        ELSE IF rssi.kind = "Err"
        THEN Err("Custom", InvalidRssiText(f3.val[1], rssi.val))
        ELSE IF channel.kind = "Err"
        THEN Err("Custom", InvalidChannelText(f5.val[1], channel.val))
        ELSE Ok([ecn |-> EcnOf(ecn.val), ssid |-> f2.val[1], rssi |-> rssi.val,
                 mac |-> f4.val[1], channel |-> channel.val])

\* wifi_mode.rs 80-136: the loop over the lines from line i on, result holding
\* the records pushed so far
RECURSIVE ListApFrom(_, _, _)
ListApFrom(lines, i, result0) ==
    IF i > Len(lines) THEN Ok(result0)
    ELSE IF ~StartsWith(lines[i], CwlapPrefix) THEN ListApFrom(lines, i + 1, result0)
    ELSE LET r == ListApRecord(lines[i])
         IN  IF r.kind = "Err" THEN r
             ELSE ListApFrom(lines, i + 1, Append(result0, r.val))

\* ListAp::decode
ListApDecode(input) ==
    IF ~IsUtf8(input) THEN Panic("utf8_list_ap")
    ELSE ListApFrom(Lines(input), 1, <<>>)

\* the UTF-8 encodings of the characters with the White_Space property, which
\* str::trim removes: U+0009..U+000D, U+0020, U+0085, U+00A0, U+1680,
\* U+2000..U+200A, U+2028, U+2029, U+202F, U+205F, U+3000
WhiteSpace ==
    { <<b>> : b \in {9, 10, 11, 12, 13, 32} }
    \cup { <<194, 133>>, <<194, 160>>, <<225, 154, 128>>, <<226, 128, 168>>,
           <<226, 128, 169>>, <<226, 128, 175>>, <<226, 129, 159>>,
           <<227, 128, 128>> }
    \cup { <<226, 128, b>> : b \in 128..138 }

\* str::trim_start
RECURSIVE TrimStart(_)
TrimStart(s) ==
    IF \E w \in WhiteSpace : StartsWith(s, w)
    THEN TrimStart(Drop(s, Len(CHOOSE w \in WhiteSpace : StartsWith(s, w))))
    ELSE s

\* str::trim_end
RECURSIVE TrimEnd(_)
TrimEnd(s) ==
    IF \E w \in WhiteSpace : EndsWith(s, w)
    THEN TrimEnd(Take(s, Len(s) - Len(CHOOSE w \in WhiteSpace : EndsWith(s, w))))
    ELSE s

\* str::trim
Trim(s) == TrimEnd(TrimStart(s))

\* GetVersion::decode
GetVersionDecode(buffer0) ==
    IF ~IsUtf8(buffer0) THEN Panic("utf8_version")
    ELSE LET newline_pos == Position(buffer0, 10)
         IN  IF newline_pos = 0 THEN Panic("no_newline")
             ELSE Ok(Trim(Drop(buffer0, newline_pos - 1)))

\* "No AP"
NoAp == <<78, 111, 32, 65, 80>>

\* wifi_mode.rs 215-223: the name in the trimmed second line; colon and comma
\* are 1-based here, so &line[colon + 1..comma] is SubSeq(line, colon + 1, comma - 1)
GetConnectedApName(line) ==
    LET colon == Position(line, 58)
        comma == Position(line, 44)
        name == SubSeq(line, colon + 1, comma - 1)
    IN  IF colon = 0 THEN Panic("no_colon")
        ELSE IF comma = 0 THEN Panic("no_comma")
        ELSE IF colon + 1 > comma THEN Panic("slice_order")
        ELSE IF Len(name) >= 2 /\ name[1] = 34 /\ name[Len(name)] = 34
        THEN Ok(<<"Some", SubSeq(name, 2, Len(name) - 1)>>)
        ELSE Ok(<<"Some", name>>)

\* GetConnectedAp::decode
GetConnectedApDecode(input) ==
    IF ~IsUtf8(input) THEN Panic("utf8_connected_ap")
    ELSE LET lines == Lines(input)
         IN  IF Len(lines) < 2 THEN Panic("no_second_line")
             ELSE LET line == Trim(lines[2])
                  IN  IF line = NoAp THEN Ok(<<"None">>)
                      ELSE GetConnectedApName(line)

\* ConnectToAp::decode
ConnectToApDecode(input) == Ok("unit")

\* Command::decode of each command
Decode(c, input) ==
    CASE c.name \in SimpleNames -> SimpleDecode(Blob(c.name), input)
      [] c.name = "GetWifiMode" -> GetWifiModeDecode(input)
      [] c.name = "SetWifiMode" -> SetWifiModeDecode(input)
      [] c.name = "ListAp" -> ListApDecode(input)
      [] c.name = "ConnectToAp" -> ConnectToApDecode(input)
      [] c.name = "GetVersion" -> GetVersionDecode(input)
      [] c.name = "GetConnectedAp" -> GetConnectedApDecode(input)
      [] c.name = "Other" -> Ok(input)

(***************************************************************************)
(* Inputs: the commands a caller sends and the byte streams the device     *)
(* makes the transport deliver during one exchange.                        *)
(***************************************************************************)
\* what the encode of a foreign Command implementation may produce
OtherEncodings ==
    { Ok(<<65, 84>>),              \* "AT": no line terminator
      Ok(<<255, 13, 10>>),         \* not UTF-8, terminated
      Err("Io", <<>>) }            \* the encode failed

\* the commands sent: Test, GetWifiMode, ConnectToAp to "home" with "pw", and
\* foreign ones
Commands ==
    { [name |-> "Test"], [name |-> "GetWifiMode"],
      [name |-> "ConnectToAp", ssid |-> <<104, 111, 109, 101>>, password |-> <<112, 119>>] }
    \cup { [name |-> "Other", enc |-> e] : e \in OtherEncodings }

\* response bodies
Bodies ==
    { <<>>,
      TestBlob,                    \* "AT\r\n"
      <<58, 50>>,                  \* ":2"
      <<58, 57>>,                  \* ":9"
      <<255>> }                    \* not UTF-8

\* the byte streams a device may deliver in one exchange
Responses ==
    { b \o END_PHRASE : b \in Bodies }
    \cup { b \o ERROR_PHRASE : b \in {<<>>, <<65>>, <<255>>} }
    \cup { <<>>,                                 \* nothing at all
           <<65, 84>>,                           \* "AT": no marker
           ERROR_PHRASE \o <<79, 75, 13, 10>>,   \* "\r\nERROR\r\nOK\r\n"
           ERROR_PHRASE \o <<88>>,               \* "\r\nERROR\r\nX"
           END_PHRASE \o END_PHRASE }            \* a body that is itself a marker

(***************************************************************************)
(* Interface::send, one action per step between two transport operations.  *)
(***************************************************************************)
\* ghost: the class of the error taxonomy (transport, protocol failure,
\* malformed response, encode) an ending belongs to
Class(why) ==
    CASE why = "encode" -> "encode"
      [] why \in {"write", "read", "zero"} -> "transport"
      [] why = "marker" -> "protocol"
      [] why = "decode" -> "malformed"
      [] OTHER -> "none"

\* send hands res back to its caller (return, ? or an unwinding panic)
Return(res, why) ==
    /\ result' = res
    /\ cause' = why
    /\ pc' = "idle"
    /\ log' = Append(log, "return")
    /\ seen' = IF res.kind = "Err" /\ res.tag = "Custom"
               THEN seen \cup {<<Class(why), res.tag>>}
               ELSE seen

\* lib.rs 27-30: the call, and command.encode(&mut buffer) on the fresh buffer
Call(c) ==
    /\ pc = "idle"
    /\ exch < MaxExchanges
    /\ Len(port_rx) <= MaxLeft
    /\ exch' = exch + 1
    /\ command' = c
    /\ port_tx' = <<>>
    /\ port_err' = "none"
    /\ chunk' = <<>>
    /\ got' = <<>>
    /\ LET e == Encode(c)
       IN  IF e.kind = "Err"
           THEN /\ buffer' = <<>>
                /\ request' = <<>>
                /\ result' = Err("Encode", e)
                /\ cause' = "encode"
                /\ pc' = "idle"
                /\ log' = <<"encode", "return">>
                /\ seen' = seen
           ELSE /\ buffer' = e.val
                /\ request' = e.val
                /\ result' = NoResult
                /\ cause' = "none"
                /\ pc' = "encoded"
                /\ log' = <<"encode">>
                /\ seen' = seen
    /\ UNCHANGED <<debug_assertions, port_rx>>

\* the kinds of io::Error the transport raises here: ErrorKind::TimedOut (the
\* timeout of the port) and ErrorKind::Interrupted
IoErrorKinds == {"TimedOut", "Interrupted"}

\* mutant of FromIo: the error of the transport is replaced by a new one
FromIoOther(e) == Err("Io", "Other")

\* lib.rs 89-93: impl From<std::io::Error> for Error, applied by ?
FromIo(e) == Err("Io", e)

\* mutant of AssertFails: the negation left out
AssertInverted == debug_assertions /\ EndsWith(buffer, CRLF)

\* lib.rs 32-36: the debug assertion on the encoded request
AssertFails == debug_assertions /\ ~EndsWith(buffer, CRLF)

\* mutant of WriteAll: a single write, whose count is not looked at
WritePartial(buf) ==
    { [ok |-> TRUE, out |-> Take(buf, n), err |-> "none", raised |-> "none"] :
        n \in 1..Len(buf) }

\* lib.rs 39: self.port.write_all(&buffer), the loop of transport writes of
\* std: a write that fails with Interrupted is made again, a write that accepts
\* no byte ends it with a new error of kind WriteZero, any other error of a
\* write ends it with that error.  ok: write_all returned Ok; out: the bytes
\* the transport accepted; err: the kind of the error returned; raised: the
\* kind of the last error the transport raised, "none" if it raised none
WriteAll(buf) ==
    { [ok |-> TRUE, out |-> buf, err |-> "none", raised |-> r] :
        r \in IF buf = <<>> THEN {"none"} ELSE {"none", "Interrupted"} }
    \cup { [ok |-> FALSE, out |-> Take(buf, n), err |-> e, raised |-> e] :
              n \in 0..(Len(buf) - 1), e \in IoErrorKinds \ {"Interrupted"} }
    \cup { [ok |-> FALSE, out |-> Take(buf, n), err |-> "WriteZero", raised |-> r] :
              n \in 0..(Len(buf) - 1), r \in {"none", "Interrupted"} }

\* lib.rs 32-41: the assertion, the trace line, write_all and buffer.clear()
Write ==
    /\ pc = "encoded"
    /\ IF AssertFails
       THEN /\ Return(Panic("assert"), "panic")
            /\ UNCHANGED <<buffer, port_tx, port_rx, port_err>>
       ELSE IF ~IsUtf8(buffer)
       THEN /\ Return(Panic("utf8_request"), "panic")
            /\ UNCHANGED <<buffer, port_tx, port_rx, port_err>>
       ELSE \E w \in WriteAll(buffer) :
              /\ port_tx' = w.out
              /\ port_err' = w.raised
              /\ IF w.ok
                 THEN /\ buffer' = <<>>
                      \* the device answers: its bytes come after those an
                      \* earlier exchange left unread
                      /\ \E r \in Responses : port_rx' = port_rx \o r
                      /\ pc' = "reading"
                      /\ log' = Append(log, "write")
                      /\ UNCHANGED <<result, cause, seen>>
                 ELSE /\ result' = FromIo(w.err)
                      /\ cause' = "write"
                      /\ pc' = "idle"
                      /\ log' = log \o <<"write", "return">>
                      /\ seen' = seen
                      /\ UNCHANGED <<buffer, port_rx>>
    /\ UNCHANGED <<debug_assertions, command, request, chunk, got, exch>>

\* mutant of Accumulate: only the chunk just read is kept and checked
AccumulateChunkOnly(buf, data) == data

\* lib.rs 46: buffer.extend_from_slice(&buff[..n])
Accumulate(buf, data) == buf \o data

\* mutant of Drain: only the closing line terminator is removed
DrainCrlf(b) == Take(b, Len(b) - Len(CRLF))

\* lib.rs 48: buffer.drain(buffer.len() - END_PHRASE.len()..)
Drain(b) == Take(b, Len(b) - Len(END_PHRASE))

\* lib.rs 45-56: a read of n > 0 bytes
ReadSome ==
    /\ pc = "reading"
    /\ \E n \in 1..Min(Len(port_rx), BUFF_LEN) :
         LET data == Take(port_rx, n)
             acc == Accumulate(buffer, data)
         IN  /\ chunk' = data
             /\ got' = got \o data
             /\ port_rx' = Drop(port_rx, n)
             /\ port_err' = "none"
             /\ IF EndsWith(acc, END_PHRASE)
                THEN /\ buffer' = Drain(acc)
                     /\ IF IsUtf8(Drain(acc))
                        THEN /\ pc' = "decode"
                             /\ log' = Append(log, "read")
                             /\ UNCHANGED <<result, cause, seen>>
                        ELSE \* lib.rs 49: from_utf8(&buffer).unwrap()
                             /\ result' = Panic("utf8_response")
                             /\ cause' = "panic"
                             /\ pc' = "idle"
                             /\ log' = log \o <<"read", "return">>
                             /\ seen' = seen
                ELSE IF EndsWith(acc, ERROR_PHRASE)
                THEN /\ buffer' = acc
                     /\ IF IsUtf8(acc)
                        THEN /\ result' = Err("Custom", acc)
                             /\ cause' = "marker"
                             /\ seen' = seen \cup {<<"protocol", "Custom">>}
                        ELSE \* lib.rs 54: String::from_utf8(buffer).unwrap()
                             /\ result' = Panic("utf8_error")
                             /\ cause' = "panic"
                             /\ seen' = seen
                     /\ pc' = "idle"
                     /\ log' = log \o <<"read", "return">>
                ELSE /\ buffer' = acc
                     /\ log' = Append(log, "read")
                     /\ UNCHANGED <<pc, result, cause, seen>>
    /\ UNCHANGED <<debug_assertions, command, request, port_tx, exch>>

\* mutant of InvalidResponse: the error carries an emptied buffer
InvalidResponseEmpty(buf) == Err("InvalidResponse", <<>>)

\* mutant of ReadZero: a read of no bytes is taken for "nothing yet" and the
\* loop goes round again
ReadZeroRetry ==
    /\ pc = "reading"
    /\ chunk' = <<>>
    /\ port_err' = "none"
    /\ log' = Append(log, "read")
    /\ UNCHANGED <<debug_assertions, pc, command, buffer, request, port_tx,
                   port_rx, got, result, cause, exch, seen>>

\* lib.rs 58: Error::InvalidResponse(buffer)
InvalidResponse(buf) == Err("InvalidResponse", buf)

\* lib.rs 57-59: a read of no bytes
ReadZero ==
    /\ pc = "reading"
    /\ result' = InvalidResponse(buffer)
    /\ cause' = "zero"
    /\ pc' = "idle"
    /\ log' = log \o <<"read", "return">>
    /\ seen' = seen
    /\ chunk' = <<>>
    /\ port_err' = "none"
    /\ UNCHANGED <<debug_assertions, command, buffer, request, port_tx, port_rx,
                   got, exch>>

\* lib.rs 44: the read fails (a timeout among others) and ? returns the error
ReadError ==
    /\ pc = "reading"
    /\ \E e \in IoErrorKinds :
         /\ port_err' = e
         /\ result' = FromIo(e)
    /\ cause' = "read"
    /\ pc' = "idle"
    /\ log' = log \o <<"read", "return">>
    /\ seen' = seen
    /\ chunk' = <<>>
    /\ UNCHANGED <<debug_assertions, command, buffer, request, port_tx, port_rx,
                   got, exch>>

\* lib.rs 63: command.decode(&buffer), whose result send returns
DecodeStep ==
    /\ pc = "decode"
    /\ LET r == Decode(command, buffer)
       IN  /\ result' = r
           /\ cause' = IF r.kind = "Err" THEN "decode" ELSE "ok"
           /\ seen' = IF r.kind = "Err" /\ r.tag = "Custom"
                      THEN seen \cup {<<"malformed", r.tag>>}
                      ELSE seen
    /\ pc' = "idle"
    /\ log' = log \o <<"decode", "return">>
    /\ UNCHANGED <<debug_assertions, command, buffer, request, port_tx, port_rx,
                   port_err, chunk, got, exch>>

Init ==
    /\ debug_assertions \in BOOLEAN
    /\ pc = "idle"
    /\ command = [name |-> "Test"]
    /\ buffer = <<>>
    /\ request = <<>>
    /\ port_tx = <<>>
    /\ port_rx = <<>>
    /\ port_err = "none"
    /\ chunk = <<>>
    /\ got = <<>>
    /\ log = <<>>
    /\ result = NoResult
    /\ cause = "none"
    /\ exch = 0
    /\ seen = {}

Next ==
    \/ \E c \in Commands : Call(c)
    \/ Write
    \/ ReadSome
    \/ ReadZero
    \/ ReadError
    \/ DecodeStep

Spec == Init /\ [][Next]_vars

(***************************************************************************)
(* The commands' encode and decode as pure functions: DecodeSpec draws a   *)
(* command and a response body, then applies encode and decode to them.    *)
(* command holds the command, buffer the body, request the encode output   *)
(* and result the decode output; pc goes "body" -> "encoded2" -> "decoded".*)
(***************************************************************************)
\* longest response body drawn
MaxBody == 5

\* all byte strings over alphabet A of length at most n
SeqsUpTo(A, n) == UNION { [1..k -> A] : k \in 0..n }

\* bytes of the bodies handed to Test::decode: 'A' 'T' '\r' '\n' and NUL
TestAlphabet == {65, 84, 13, 10, 0}

\* bytes of the bodies handed to GetWifiMode::decode: ':' '1' '2' '3' '4' 'A'
WifiModeAlphabet == {58, 49, 50, 51, 52, 65}

\* the passwords of the ConnectToAp commands drawn: pw, p"w\d and p<U+00A0>w
Passwords ==
    { <<112, 119>>, <<112, 34, 119, 92, 100>>, <<112, 194, 160, 119>> }

\* the commands whose decode does not look into the body much, with a few bodies
PlainInputs ==
    ({ [name |-> n] : n \in {"Restart", "DisconnectFromAp"} }
       \cup { [name |-> "SetWifiMode", mode |-> m] : m \in WifiModes }
       \cup { [name |-> "ConnectToAp", ssid |-> <<104, 111, 109, 101>>, password |-> p] :
                p \in Passwords })
    \X Bodies

\* most digits of an encryption code drawn
MaxDigits == 3

\* most lines of an access point list drawn
MaxLines == 3

\* one line of the answer to AT+CWLAP with the five fields given as text
RecordLine(ecn, ssid, rssi, mac, channel) ==
    CwlapPrefix \o ecn \o <<44>> \o ssid \o <<44>> \o rssi \o <<44>> \o mac
                \o <<44>> \o channel \o <<41>>

\* the encryption codes drawn: every digit string, and "+3", "-1", "x"
EcnTexts ==
    SeqsUpTo(48..57, MaxDigits) \cup {<<43, 51>>, <<45, 49>>, <<120>>}

\* single records +CWLAP:(<ecn>,"a",-40,"m",6) over the encryption codes
EcnBodies ==
    { RecordLine(e, <<34, 97, 34>>, <<45, 52, 48>>, <<34, 109, 34>>, <<54>>) :
        e \in EcnTexts }

\* well-formed records: (3,"a,b",-40,"m",6) and (9,a,7,,11)
GoodLines ==
    { RecordLine(<<51>>, <<34, 97, 44, 98, 34>>, <<45, 52, 48>>, <<34, 109, 34>>, <<54>>),
      RecordLine(<<57>>, <<97>>, <<55>>, <<>>, <<49, 49>>) }

\* records with the prefix and a bad field: rssi x, channel 256, no ')'
BadLines ==
    { RecordLine(<<48>>, <<97>>, <<120>>, <<109>>, <<49>>),
      RecordLine(<<48>>, <<97>>, <<49>>, <<109>>, <<50, 53, 54>>),
      CwlapPrefix \o <<48, 44, 97, 44, 49, 44, 109, 44, 49>> }

\* lines without the prefix: empty, the echo AT+CWLAP, the partial prefix
\* +CWLAP: , a record after a space, and a byte that is not UTF-8
OtherLines ==
    { <<>>,
      <<65, 84, 43, 67, 87, 76, 65, 80>>,
      <<43, 67, 87, 76, 65, 80, 58>>,
      <<32>> \o RecordLine(<<48>>, <<97>>, <<49>>, <<109>>, <<49>>),
      <<255>> }

\* the lines each followed by "\r\n"
RECURSIVE JoinLines(_)
JoinLines(lines) ==
    IF lines = <<>> THEN <<>>
    ELSE Head(lines) \o <<13, 10>> \o JoinLines(Tail(lines))

\* the bodies handed to ListAp::decode
ListBodies ==
    EcnBodies
    \cup { JoinLines(ls) : ls \in SeqsUpTo(GoodLines \cup BadLines \cup OtherLines, MaxLines) }

\* bytes of the bodies handed to GetVersion::decode: '\n' '\r' ' ' 'a' and 0xFF
VersionAlphabet == {10, 13, 32, 97, 255}

\* bytes of the bodies handed to GetConnectedAp::decode: '\n' ':' ',' '"' 'a'
ConnectedApAlphabet == {10, 58, 44, 34, 97}

\* second lines of answers to AT+CWJAP?: No AP, No AP between blanks,
\* +CWJAP:"home","aa:bb",1 and +CWJAP:home,1 and 0xFF:a,
SecondLines ==
    { NoAp,
      <<32>> \o NoAp \o <<32>>,
      <<43, 67, 87, 74, 65, 80, 58, 34, 104, 111, 109, 101, 34, 44, 34, 97, 97,
        58, 98, 98, 34, 44, 49>>,
      <<43, 67, 87, 74, 65, 80, 58, 104, 111, 109, 101, 44, 49>>,
      <<255, 58, 97, 44>> }

\* what follows the second line: nothing, "\r\n", a third line :b, or 0xFF
AfterSecond ==
    { <<>>, <<13, 10>>, <<13, 10, 58, 98, 44, 13, 10>>, <<13, 10, 255, 13, 10>> }

\* the echo AT+CWJAP? (or an empty first line), a second line and the rest
ConnectedApBodies ==
    SeqsUpTo(ConnectedApAlphabet, MaxBody)
    \cup { first \o <<13, 10>> \o second \o rest :
             first \in {<<>>, <<65, 84, 43, 67, 87, 74, 65, 80, 63>>},
             second \in SecondLines, rest \in AfterSecond }

DecodeInputs ==
    ({[name |-> "Test"]} \X SeqsUpTo(TestAlphabet, MaxBody))
    \cup ({[name |-> "GetWifiMode"]} \X SeqsUpTo(WifiModeAlphabet, MaxBody))
    \cup ({[name |-> "ListAp"]} \X ListBodies)
    \cup ({[name |-> "GetVersion"]} \X SeqsUpTo(VersionAlphabet, MaxBody))
    \cup ({[name |-> "GetConnectedAp"]} \X ConnectedApBodies)
    \cup PlainInputs

InitDecode ==
    /\ debug_assertions = TRUE
    /\ pc = "body"
    /\ \E in \in DecodeInputs : command = in[1] /\ buffer = in[2]
    /\ request = <<>>
    /\ port_tx = <<>>
    /\ port_rx = <<>>
    /\ port_err = "none"
    /\ chunk = <<>>
    /\ got = <<>>
    /\ log = <<>>
    /\ result = NoResult
    /\ cause = "none"
    /\ exch = 0
    /\ seen = {}

\* command.encode(&mut output) on an empty output
ApplyEncode ==
    /\ pc = "body"
    /\ request' = Encode(command).val
    /\ pc' = "encoded2"
    /\ UNCHANGED <<debug_assertions, command, buffer, port_tx, port_rx, port_err,
                   chunk, got, log, result, cause, exch, seen>>

\* command.decode(&buffer)
ApplyDecode ==
    /\ pc = "encoded2"
    /\ result' = Decode(command, buffer)
    /\ pc' = "decoded"
    /\ UNCHANGED <<debug_assertions, command, buffer, request, port_tx, port_rx,
                   port_err, chunk, got, log, cause, exch, seen>>

NextDecode == ApplyEncode \/ ApplyDecode

DecodeSpec == InitDecode /\ [][NextDecode]_vars

(***************************************************************************)
(* try_get_string_until as a pure function: ScanSpec draws a text and the  *)
(* byte to find and applies the scanner.  buffer holds the text, command   *)
(* the call, result what it returns; pc goes "text" -> "scanned".          *)
(***************************************************************************)
\* longest text handed to the scanner
MaxField == 6

\* bytes of the texts handed to the scanner: '"' ',' ')' 'a'
ScanAlphabet == {34, 44, 41, 97}

\* the bytes ListAp::decode asks for: ',' and ')'
ScanFinds == {44, 41}

InitScan ==
    /\ debug_assertions = TRUE
    /\ pc = "text"
    /\ buffer \in SeqsUpTo(ScanAlphabet, MaxField)
    /\ \E f \in ScanFinds : command = [name |-> "try_get_string_until", find |-> f]
    /\ request = <<>>
    /\ port_tx = <<>>
    /\ port_rx = <<>>
    /\ port_err = "none"
    /\ chunk = <<>>
    /\ got = <<>>
    /\ log = <<>>
    /\ result = NoResult
    /\ cause = "none"
    /\ exch = 0
    /\ seen = {}

\* try_get_string_until(str, find)
ApplyScan ==
    /\ pc = "text"
    /\ result' = TryGetStringUntil(buffer, command.find)
    /\ pc' = "scanned"
    /\ UNCHANGED <<debug_assertions, command, buffer, request, port_tx, port_rx,
                   port_err, chunk, got, log, cause, exch, seen>>

NextScan == ApplyScan

ScanSpec == InitScan /\ [][NextScan]_vars

(***************************************************************************)
(* Properties.  The helpers below are written out on their own, without    *)
(* the operators of the model, so that a property does not follow the      *)
(* model when the model is wrong.                                          *)
(***************************************************************************)
\* the last n elements of s (all of s when it is shorter)
Tail_n(s, n) == IF Len(s) <= n THEN s ELSE SubSeq(s, Len(s) - n + 1, Len(s))

\* sub occurs in s as a contiguous block
Contains(s, sub) ==
    \E i \in 0..(Len(s) - Len(sub)) : SubSeq(s, i + 1, i + Len(sub)) = sub

\* the step e is in the log
Did(e) == \E i \in 1..Len(log) : log[i] = e

\* "\r\nOK\r\n"
OkMarker == <<13, 10, 79, 75, 13, 10>>

\* "\r\nERROR\r\n"
ErrorMarker == <<13, 10, 69, 82, 82, 79, 82, 13, 10>>

\* the exchange left the receive loop through the success branch
ExitedSuccessfully ==
    \/ pc = "decode"
    \/ (pc = "idle" /\ cause \in {"ok", "decode"})

\* C1: whenever the bytes read so far in an exchange end with the success
\* marker "\r\nOK\r\n", however the reads cut it, the read that brought its last
\* byte recognized it and the receive loop was left through the success branch
\* (decode is reached).
C1_SplitMarkerExitsSuccessfully ==
    (Did("read") /\ Tail_n(got, 6) = OkMarker) => ExitedSuccessfully

\* C2 as stated: once the failure marker "\r\nERROR\r\n" is among the bytes fed
\* to the accumulator, wherever it stands in a read, send has aborted with the
\* protocol failure error and decode was not invoked.
C2_ErrorAnywhereAborts ==
    Contains(got, ErrorMarker) =>
        /\ pc = "idle"
        /\ result.kind = "Err" /\ result.tag = "Custom"
        /\ cause = "marker"
        /\ ~Did("decode")

\* C2 amended: when a read leaves the accumulated bytes ending with the failure
\* marker (in any chunking, with any bytes before the marker), send stops at
\* that read and never invokes decode: it returns Error::Custom carrying the
\* accumulated text when that text is UTF-8, and panics otherwise.
C2_TrailingErrorAborts ==
    (Did("read") /\ Tail_n(got, 9) = ErrorMarker) =>
        /\ pc = "idle"
        /\ ~Did("decode")
        /\ log[Len(log)] = "return" /\ log[Len(log) - 1] = "read"
        /\ IF IsUtf8(got)
           THEN result.kind = "Err" /\ result.tag = "Custom" /\ result.val = got
           ELSE result.kind = "Panic"

\* C2 witness: the failure marker arrived cut across reads, after other bytes,
\* and the exchange ended with the protocol failure error
C2_Witness ==
    /\ cause = "marker"
    /\ Len(chunk) < 9
    /\ Len(got) > 9
    /\ result.tag = "Custom"

\* C3: when send has left the receive loop through the success branch, the
\* bytes read in this exchange end with the success marker, and the buffer
\* handed to decode is exactly those bytes, in order, without their last 6:
\* one marker is removed, and nothing of the request or of an earlier exchange
\* is in it.
C3_DecodeGetsStrippedAccumulation ==
    pc = "decode" =>
        /\ Len(got) >= 6
        /\ Tail_n(got, 6) = OkMarker
        /\ buffer = SubSeq(got, 1, Len(got) - 6)

\* C3 witness: in a second exchange, a response read in several chunks whose
\* body itself ends with a success marker is about to be decoded
C3_Witness ==
    /\ pc = "decode"
    /\ exch = 2
    /\ Len(chunk) < Len(got)
    /\ buffer = OkMarker

\* C4: an exchange ended by a read of zero bytes returned
\* Error::InvalidResponse carrying exactly the bytes read before in this
\* exchange; that read was its last step and decode was not invoked.
C4_ZeroReadReturnsAccumulated ==
    cause = "zero" =>
        /\ pc = "idle"
        /\ result = [kind |-> "Err", tag |-> "InvalidResponse", val |-> got]
        /\ ~Did("decode")
        /\ log[Len(log)] = "return" /\ log[Len(log) - 1] = "read"

\* C4 witness: a zero-byte read after some bytes had been accumulated
C4_Witness ==
    /\ cause = "zero"
    /\ Len(got) >= 2
    /\ result.tag = "InvalidResponse"

\* send keeps running until it hands control back: the thread is never
\* suspended for ever and every blocking transport call returns (the port is
\* opened with a read timeout, lib.rs 16)
SendStep == Write \/ ReadSome \/ ReadZero \/ ReadError \/ DecodeStep

FairSpec == Spec /\ WF_vars(SendStep)

\* C5: every call of send ends; the receive loop goes round again only after a
\* read that returned bytes and left the accumulation ending with neither
\* marker; a read of zero bytes or a failed read ends the call with an error.
C5_SendReturns ==
    /\ (pc # "idle") ~> (pc = "idle")
    /\ [][(pc = "reading" /\ pc' = "reading") =>
            /\ chunk' # <<>>
            /\ Tail_n(got', 6) # OkMarker
            /\ Tail_n(got', 9) # ErrorMarker]_vars
    /\ [](cause \in {"zero", "read"} => (pc = "idle" /\ result.kind = "Err"))

\* C5 witness: a response without any marker ended by a zero-byte read
C5_Witness ==
    /\ pc = "idle"
    /\ cause = "zero"
    /\ got = <<65, 84>>
    /\ Len(log) = 6

\* the steps of one exchange come in the order encode, write, reads, decode,
\* return
LogInOrder ==
    /\ \A i \in 1..Len(log) :
         /\ log[i] = "encode" => i = 1
         /\ log[i] = "write" => i = 2
         /\ log[i] = "read" => (i >= 3 /\ log[2] = "write" /\ port_tx = request)
         /\ log[i] = "decode" =>
               (i >= 4 /\ log[i - 1] = "read" /\ Tail_n(got, 6) = OkMarker)
         /\ log[i] = "return" => i = Len(log)
    /\ Len(log) > 0 => log[1] = "encode"
    /\ pc = "idle" <=> (log = <<>> \/ log[Len(log)] = "return")
    /\ pc = "reading" => port_tx = request
    /\ pc = "decode" => (log[Len(log)] = "read" /\ Tail_n(got, 6) = OkMarker)

\* C6: in every exchange the steps come in the order encode, write of the full
\* request, reads, decode, return: no read before the request is fully
\* written, decode only after the success marker was recognized; a new
\* exchange starts, and the transport is used, only while no other exchange is
\* running.
C6_ExchangesRunInOrder ==
    /\ []LogInOrder
    /\ [][exch' # exch => (pc = "idle" /\ exch' = exch + 1)]_vars
    /\ [][(exch' = exch /\ (port_tx' # port_tx \/ port_rx' # port_rx)) =>
            (pc # "idle" /\ Len(log) > 0 /\ log[Len(log)] # "return")]_vars

\* C6 witness: a second exchange that ran all its steps and returned
C6_Witness ==
    /\ exch = 2
    /\ pc = "idle"
    /\ log = <<"encode", "write", "read", "read", "decode", "return">>

\* C7 as stated: send never writes to the transport a request that does not
\* end with "\r\n": no byte of such a request goes out.
C7_NeverWritesUnterminated ==
    Tail_n(request, 2) # <<13, 10>> => port_tx = <<>>

\* C7 amended: in a build with debug assertions enabled, a request that does
\* not end with "\r\n" is never written: send panics before any byte goes out.
C7_DebugBuildNeverWritesUnterminated ==
    (/\ debug_assertions
     /\ exch > 0
     /\ pc # "encoded"
     /\ result.tag # "Encode"
     /\ Tail_n(request, 2) # <<13, 10>>) =>
        /\ port_tx = <<>>
        /\ ~Did("write")
        /\ result.kind = "Panic"

\* C7 witness: the request "AT" was rejected by the assertion, nothing written
C7_Witness ==
    /\ debug_assertions
    /\ request = <<65, 84>>
    /\ result = [kind |-> "Panic", tag |-> "assert", val |-> <<>>]
    /\ port_tx = <<>>

\* C8: the kind of a returned error tells the classes of failure apart
\* (transport, protocol failure, malformed response, encode): no kind is
\* returned for failures of two classes, in particular not for a received
\* failure marker and for a decoder's malformed body.
C8_KindsDistinguishClasses ==
    \A p \in seen : \A q \in seen : p[2] = q[2] => p[1] = q[1]

\* C9: encode(Test) is exactly "AT\r\n"; decode(Test, body) is Ok(true) when
\* body is "AT\r\n" and Ok(false), never an error, for every other body.
C9_TestRoundTrip ==
    command.name = "Test" =>
        /\ pc \in {"encoded2", "decoded"} => request = <<65, 84, 13, 10>>
        /\ pc = "decoded" =>
              /\ result.kind = "Ok"
              /\ result.val \in BOOLEAN
              /\ result.val <=> (buffer = <<65, 84, 13, 10>>)

\* C9 witness: a body of the marker's length that differs from it decoded to
\* false
C9_Witness ==
    /\ pc = "decoded"
    /\ command.name = "Test"
    /\ buffer = <<65, 84, 13, 13>>
    /\ result = [kind |-> "Ok", tag |-> "", val |-> FALSE]

\* C10: GetWifiMode::decode of a body with a byte after its first ':' gives
\* the mode named by that byte ('1' StationMode, '2' ApMode, '3'
\* ApStationMode) and an error for any other byte there, whatever follows.
C10_ModeIsByteAfterFirstColon ==
    (pc = "decoded" /\ command.name = "GetWifiMode") =>
        LET colons == {i \in 1..Len(buffer) : buffer[i] = 58}
        IN  \A i \in colons :
              ((\A j \in colons : i <= j) /\ i < Len(buffer)) =>
                 LET x == buffer[i + 1]
                 IN  /\ x = 49 => (result.kind = "Ok" /\ result.val = "StationMode")
                     /\ x = 50 => (result.kind = "Ok" /\ result.val = "ApMode")
                     /\ x = 51 => (result.kind = "Ok" /\ result.val = "ApStationMode")
                     /\ x \notin {49, 50, 51} =>
                           (result.kind = "Err" /\ result.tag = "Custom")

\* C10 witness: ":2" followed by another ':' and another digit decoded to ApMode
C10_Witness ==
    /\ pc = "decoded"
    /\ command.name = "GetWifiMode"
    /\ buffer = <<65, 58, 50, 58, 49>>
    /\ result.kind = "Ok"
    /\ result.val = "ApMode"

\* C11: GetWifiMode::decode of a malformed body gives an error value, never a
\* panic and never a mode: a body without any ':' (the empty body among them)
\* and a body whose first ':' is its last byte both decode to Err(Custom).
C11_MalformedModeIsError ==
    (/\ pc = "decoded"
     /\ command.name = "GetWifiMode"
     /\ \/ \A i \in 1..Len(buffer) : buffer[i] # 58
        \/ (buffer[Len(buffer)] = 58 /\ \A i \in 1..(Len(buffer) - 1) : buffer[i] # 58))
    => (result.kind = "Err" /\ result.tag = "Custom")

\* C11 witness: the body "A:" (nothing after the ':') decoded to an error
C11_Witness ==
    /\ pc = "decoded"
    /\ command.name = "GetWifiMode"
    /\ buffer = <<65, 58>>
    /\ result.kind = "Err"

\* the number of quote characters among the first n bytes of s
RECURSIVE QuotesIn(_, _)
QuotesIn(s, n) == IF n = 0 THEN 0 ELSE QuotesIn(s, n - 1) + (IF s[n] = 34 THEN 1 ELSE 0)

\* the delimiters of the text that stand outside quotes: an even number of
\* quote characters comes before them
Boundaries(s, find) ==
    {i \in 1..Len(s) : s[i] = find /\ QuotesIn(s, i - 1) % 2 = 0}

\* C12: try_get_string_until cuts the text at the first delimiter that stands
\* outside quotes (a quote character toggles the flag, a delimiter inside
\* quotes is no boundary): the field is the text before it, without one pair
\* of surrounding quotes when it has one, and the remainder starts right after
\* it; without such a delimiter it is an error.
C12_QuotedDelimiterIsNoBoundary ==
    pc = "scanned" =>
        LET bs == Boundaries(buffer, command.find)
        IN  IF bs = {} THEN result.kind = "Err" /\ result.tag = "Custom"
            ELSE \E i \in bs :
                   /\ \A j \in bs : i <= j
                   /\ result.kind = "Ok"
                   /\ result.val[2] = SubSeq(buffer, i + 1, Len(buffer))
                   /\ LET f == SubSeq(buffer, 1, i - 1)
                      IN  result.val[1] =
                            IF Len(f) >= 2 /\ f[1] = 34 /\ f[Len(f)] = 34
                            THEN SubSeq(f, 2, Len(f) - 1)
                            ELSE f

\* C12 witness: the text "a,a", gave the field a,a and an empty remainder
C12_Witness ==
    /\ pc = "scanned"
    /\ command.find = 44
    /\ buffer = <<34, 97, 44, 97, 34, 44>>
    /\ result.kind = "Ok"
    /\ result.val = << <<97, 44, 97>>, <<>> >>

\* the value of a decimal numeral
RECURSIVE NumeralValue(_)
NumeralValue(s) ==
    IF s = <<>> THEN 0
    ELSE NumeralValue(SubSeq(s, 1, Len(s) - 1)) * 10 + (s[Len(s)] - 48)

\* a non-empty string of decimal digits
IsNumeral(s) == Len(s) > 0 /\ \A i \in 1..Len(s) : s[i] \in 48..57

\* the variant the specification gives to an encryption code
VariantOf(n) ==
    IF n \in 0..4
    THEN <<<<"Open">>, <<"WEP">>, <<"WPA_PSK">>, <<"WPA2_PSK">>, <<"WPA_WPA2_PSK">>>>[n + 1]
    ELSE <<"Unknown", n>>

\* the list ListAp::decode is expected to give for +CWLAP:(<e>,"a",-40,"m",6)
OneRecord(e) ==
    Ok(<<[ecn |-> VariantOf(NumeralValue(e)), ssid |-> <<97>>, rssi |-> -40,
          mac |-> <<109>>, channel |-> 6]>>)

\* ListAp::decode was applied to the single record with encryption code e
\* (the body without the 8 bytes before and the 15 bytes after the code)
DecodedRecordOf(e) ==
    /\ pc = "decoded"
    /\ command.name = "ListAp"
    /\ buffer = CwlapPrefix \o e \o <<44, 34, 97, 34, 44, 45, 52, 48, 44, 34, 109, 34, 44, 54, 41>>

\* C13 as written: every encryption code that is a decimal numeral decodes, 0..4
\* to Open, WEP, WPA_PSK, WPA2_PSK, WPA_WPA2_PSK and every other value to
\* Unknown carrying the value
C13_AnyCodeDecodes ==
    LET e == SubSeq(buffer, 9, Len(buffer) - 15)
    IN  DecodedRecordOf(e) /\ IsNumeral(e) => result = OneRecord(e)

\* C13 amended: an encryption code that is a decimal numeral of value at most
\* 255 decodes, 0..4 to the five named variants and 5..255 to Unknown carrying
\* the value; a numeral above 255 makes decode return a Custom error
C13_ByteCodeDecodes ==
    LET e == SubSeq(buffer, 9, Len(buffer) - 15)
    IN  DecodedRecordOf(e) /\ IsNumeral(e) =>
            IF NumeralValue(e) <= 255
            THEN result = OneRecord(e)
            ELSE result.kind = "Err" /\ result.tag = "Custom"

\* C13 witness: the code 255 was decoded to Unknown(255)
C13_Witness ==
    /\ DecodedRecordOf(<<50, 53, 53>>)
    /\ result.kind = "Ok"
    /\ result.val[1].ecn = <<"Unknown", 255>>

\* the lines of a body in which every line is followed by "\r\n"
RECURSIVE CrlfLines(_, _)
CrlfLines(s, line) ==
    IF s = <<>> THEN <<>>
    ELSE IF Len(s) >= 2 /\ s[1] = 13 /\ s[2] = 10
    THEN <<line>> \o CrlfLines(SubSeq(s, 3, Len(s)), <<>>)
    ELSE CrlfLines(Tail(s), Append(line, s[1]))

\* the line begins with the record prefix +CWLAP:(
HasRecordPrefix(line) ==
    Len(line) >= 8 /\ SubSeq(line, 1, 8) = <<43, 67, 87, 76, 65, 80, 58, 40>>

\* the access point a well-formed line stands for: (3,"a,b",-40,"m",6) or
\* (9,a,7,,11)
RecordOf(line) ==
    IF line[9] = 51
    THEN [ecn |-> <<"WPA2_PSK">>, ssid |-> <<97, 44, 98>>, rssi |-> -40,
          mac |-> <<109>>, channel |-> 6]
    ELSE [ecn |-> <<"Unknown", 9>>, ssid |-> <<97>>, rssi |-> 7,
          mac |-> <<>>, channel |-> 11]

\* one record per line with the record prefix, in the order of the lines
RECURSIVE RecordsOf(_)
RecordsOf(lines) ==
    IF lines = <<>> THEN <<>>
    ELSE (IF HasRecordPrefix(Head(lines)) THEN <<RecordOf(Head(lines))>> ELSE <<>>)
         \o RecordsOf(Tail(lines))

\* C14: when every line with the record prefix is well-formed, ListAp::decode
\* gives exactly one record per such line, in the order of the lines, whatever
\* the other lines hold
C14_OtherLinesAreSkipped ==
    pc = "decoded" /\ command.name = "ListAp" /\ buffer \notin EcnBodies =>
        LET lines == CrlfLines(buffer, <<>>)
        IN  (\A i \in 1..Len(lines) : HasRecordPrefix(lines[i]) => lines[i] \in GoodLines)
                => result = Ok(RecordsOf(lines))

\* the index of the first b in s, 0 when s holds no b
IndexOf(s, b) ==
    LET at == { i \in 1..Len(s) : s[i] = b }
    IN  IF at = {} THEN 0 ELSE CHOOSE i \in at : \A j \in at : i <= j

\* the body holds a second line: something follows its first '\n'
HasSecondLine(body) ==
    IndexOf(body, 10) > 0 /\ IndexOf(body, 10) < Len(body)

\* the second line of the body, without its line terminator
SecondLineOf(body) ==
    LET rest == SubSeq(body, IndexOf(body, 10) + 1, Len(body))
        end == IndexOf(rest, 10)
    IN  IF end = 0 THEN rest ELSE SubSeq(rest, 1, end - 1)

\* s without the blanks, tabs, '\r' and '\n' at its two ends
RECURSIVE Stripped(_)
Stripped(s) ==
    IF s # <<>> /\ s[1] \in {9, 10, 11, 12, 13, 32} THEN Stripped(Tail(s))
    ELSE IF s # <<>> /\ s[Len(s)] \in {9, 10, 11, 12, 13, 32}
    THEN Stripped(SubSeq(s, 1, Len(s) - 1))
    ELSE s

\* the sentinel No AP
Sentinel == <<78, 111, 32, 65, 80>>

\* the body is structurally bad: it is no text (it holds the byte 0xFF), or it
\* has no second line, or its second line is not the sentinel and lacks ':' or
\* ',' or has its first ',' before its first ':'
StructurallyBad(body) ==
    \/ \E i \in 1..Len(body) : body[i] = 255
    \/ ~HasSecondLine(body)
    \/ LET line == Stripped(SecondLineOf(body))
       IN  /\ line # Sentinel
           /\ \/ IndexOf(line, 58) = 0
              \/ IndexOf(line, 44) = 0
              \/ IndexOf(line, 44) < IndexOf(line, 58)

\* C15: GetConnectedAp::decode answers every structurally bad body with an
\* error value, never with a panic and never with a result
C15_BadBodyIsError ==
    pc = "decoded" /\ command.name = "GetConnectedAp" /\ StructurallyBad(buffer)
        => result.kind = "Err"

\* s without one pair of surrounding quotes
Unquoted(s) ==
    IF Len(s) >= 2 /\ s[1] = 34 /\ s[Len(s)] = 34
    THEN SubSeq(s, 2, Len(s) - 1)
    ELSE s

\* C16: the result of GetConnectedAp::decode is a function of the trimmed
\* second line alone: none for the sentinel, otherwise the text between the
\* first ':' and the first ',' without one pair of surrounding quotes, whatever
\* the first line and the lines after the second hold
C16_NameFromSecondLine ==
    pc = "decoded" /\ command.name = "GetConnectedAp" /\ HasSecondLine(buffer) =>
        LET line == Stripped(SecondLineOf(buffer))
            colon == IndexOf(line, 58)
            comma == IndexOf(line, 44)
        IN  IF line = Sentinel THEN result = Ok(<<"None">>)
            ELSE colon > 0 /\ comma > colon =>
                    result = Ok(<<"Some", Unquoted(SubSeq(line, colon + 1, comma - 1))>>)

\* C17: GetVersion::decode returns what follows the first '\n' of the body,
\* without the white space at its two ends; a body without '\n', or one that is
\* no text (it holds the byte 0xFF), gives an error value
C17_VersionIsTrimmedRest ==
    pc = "decoded" /\ command.name = "GetVersion" =>
        IF IndexOf(buffer, 10) > 0 /\ \A i \in 1..Len(buffer) : buffer[i] # 255
        THEN result = Ok(Stripped(SubSeq(buffer, IndexOf(buffer, 10) + 1, Len(buffer))))
        ELSE result.kind = "Err"

\* C18: an exchange never goes on reading once the bytes read end with the
\* failure marker, and the exchange that ended at such a read returned the
\* Custom error carrying all bytes read in it, the marker included
C18_FailureCarriesAccumulation ==
    /\ pc = "reading" => Tail_n(got, 9) # ErrorMarker
    /\ pc = "idle" /\ chunk # <<>> /\ Tail_n(got, 9) = ErrorMarker
          => result = Err("Custom", got)

\* how often step s stands in the log
RECURSIVE Count(_, _)
Count(l, s) ==
    IF l = <<>> THEN 0
    ELSE (IF Head(l) = s THEN 1 ELSE 0) + Count(Tail(l), s)

\* the steps of one exchange: one encode, at most one write_all and one
\* decode, and every error ending directly after its failing step
OneOfEach ==
    /\ Count(log, "encode") = 1
    /\ Count(log, "write") <= 1
    /\ Count(log, "decode") <= 1
    /\ Count(log, "return") <= 1
    /\ port_tx = SubSeq(request, 1, Len(port_tx))
    /\ cause = "encode" => log = <<"encode", "return">> /\ port_tx = <<>>
    /\ cause = "write" =>
          log = <<"encode", "write", "return">> /\ got = <<>> /\ port_tx # request
    /\ cause \in {"read", "zero", "marker"} =>
          /\ Count(log, "decode") = 0
          /\ log[Len(log)] = "return" /\ log[Len(log) - 1] = "read"
          /\ port_tx = request

\* C19 as written: in one exchange the command is encoded once, the request is
\* written at most once and decode is invoked at most once; an exchange that
\* ended with an error performed nothing after the failing step; an error the
\* transport raises ends the call, and the error a failed write or read returns
\* is the one the transport raised
C19_NoRetry ==
    exch > 0 =>
        /\ OneOfEach
        /\ port_err # "none" => pc = "idle" /\ cause \in {"write", "read"}
        /\ cause \in {"write", "read"} =>
              result = [kind |-> "Err", tag |-> "Io", val |-> port_err]

\* C19 amended: as C19, except for what write_all does: a transport write that
\* fails with Interrupted is made again (only then does the call go on after
\* an error of the transport), and a transport write that accepts no byte gives
\* an error of kind WriteZero which the transport did not raise; every other
\* error of a write, and every error of a read (Interrupted too), ends the call
\* and is the error returned
C19_NoRetryButInterruptedWrite ==
    exch > 0 =>
        /\ OneOfEach
        /\ port_err # "none" /\ ~(pc = "idle" /\ cause \in {"write", "read"}) =>
              port_err = "Interrupted" /\ pc = "reading" /\ got = <<>>
        /\ cause = "read" =>
              /\ port_err # "none"
              /\ result = [kind |-> "Err", tag |-> "Io", val |-> port_err]
        /\ cause = "write" =>
              \/ /\ port_err \notin {"none", "Interrupted"}
                 /\ result = [kind |-> "Err", tag |-> "Io", val |-> port_err]
              \/ /\ port_err \in {"none", "Interrupted"}
                 /\ result = [kind |-> "Err", tag |-> "Io", val |-> "WriteZero"]

\* C19 witness: after two reads the third was interrupted, which send returned
\* without reading again
C19_Witness ==
    /\ cause = "read"
    /\ log = <<"encode", "write", "read", "read", "read", "return">>
    /\ port_err = "Interrupted"
    /\ result.val = "Interrupted"

\* a marker, success or failure, ends at byte k of s
MarkerEndsAt(s, k) ==
    \/ k >= 6 /\ SubSeq(s, k - 5, k) = OkMarker
    \/ k >= 9 /\ SubSeq(s, k - 8, k) = ErrorMarker

\* a marker occurs in s as its final bytes and nowhere before
OnlyFinalMarker(s) ==
    /\ MarkerEndsAt(s, Len(s))
    /\ \A k \in 1..(Len(s) - 1) : ~MarkerEndsAt(s, k)

\* what send makes of the whole stream s when it is read to its end: the
\* result of decode on s without the success marker, or the Custom error
\* carrying s, or the panic of the UTF-8 conversion of either
OutcomeOf(s) ==
    IF Tail_n(s, 6) = OkMarker
    THEN IF IsUtf8(SubSeq(s, 1, Len(s) - 6))
         THEN Decode(command, SubSeq(s, 1, Len(s) - 6))
         ELSE Panic("utf8_response")
    ELSE IF IsUtf8(s) THEN Err("Custom", s) ELSE Panic("utf8_error")

\* C20: for a stream (the bytes read and those still to come) in which a marker
\* occurs only as the final bytes, an exchange made of non-empty reads ends when
\* the stream is read to its end, with the buffer handed to decode and the value
\* returned determined by the stream alone, however it was cut into reads; for
\* any stream, the loop is still reading only while no read has ended at the end
\* of a marker, and an exchange ended by a non-empty read ended at the end of a
\* marker
C20_ChunkingIndependence ==
    /\ pc \in {"decode", "idle"} /\ chunk # <<>> /\ OnlyFinalMarker(got \o port_rx) =>
          /\ port_rx = <<>>
          /\ Tail_n(got, 6) = OkMarker => buffer = SubSeq(got, 1, Len(got) - 6)
          /\ pc = "idle" => result = OutcomeOf(got)
    /\ pc = "reading" => ~MarkerEndsAt(got, Len(got))
    /\ pc \in {"decode", "idle"} /\ chunk # <<>> => MarkerEndsAt(got, Len(got))

\* C20 witness: a stream whose only marker is at its end was read in three
\* pieces and reached decode
C20_Witness ==
    /\ pc = "idle"
    /\ cause = "ok"
    /\ log = <<"encode", "write", "read", "read", "read", "decode", "return">>
    /\ OnlyFinalMarker(got)
    /\ port_rx = <<>>

====
